---------------------------- MODULE Spec2Model ----------------------------
(***************************************************************************)
(* Model of github.com/andrieee44/mylib: the Linux ioctl request-code      *)
(* codec (package linux/ioctl), the evdev request codes and bitmask        *)
(* helpers (package linux/input, h.go), the evdev Device handle            *)
(* (package linux/input, device.go), the XDG base directory files          *)
(* (package xdg) and the inputdevices command (package main).              *)
(*                                                                         *)
(* A Go uint is modelled as a tuple of bits, least significant bit first,  *)
(* of the width the build gives it (32 bits on GOARCH=386, 64 bits on      *)
(* GOARCH=amd64): request codes such as 0x80044520 do not fit the          *)
(* integers of the model checker, and shifts drop the bits that leave the  *)
(* word exactly as the Go operators do.                                    *)
(***************************************************************************)
EXTENDS Integers, Sequences, FiniteSets, TLC

VARIABLES
    goarch,   \* the platform the package was built for: "386" or "amd64"
    call,     \* SpecCodec: the pure function last called and its arguments
    ret,      \* SpecCodec: what that call returned
    fdtable,  \* Spec: the process's descriptor table, fd -> path or NoFile
    handles,  \* Spec: the *Device values created so far, in creation order
    last,     \* Spec: the last Device operation, its ioctl and its outcome
    scan,     \* Spec: the call of Devices in progress, between two of its opens
    main      \* SpecCLI: the inputdevices command, where it is and what it holds

vars == <<goarch, call, ret, fdtable, handles, last, scan, main>>

(***************************************************************************)
(* Platform: sizes of Go's int and uint, unsafe.Sizeof of the argument     *)
(* types.                                                                  *)
(***************************************************************************)
GoArchs == {"386", "amd64"}

\* unsafe.Sizeof(int(0)): 4 bytes on 32-bit builds, 8 bytes on 64-bit builds.
SizeofInt(arch) == IF arch = "386" THEN 4 ELSE 8

\* number of bits of a Go uint on the platform
UintBits(arch) == 8 * SizeofInt(arch)

\* unsafe.Sizeof(ID{}): four uint16 fields, no padding.
SizeofID == 2 + 2 + 2 + 2

(***************************************************************************)
(* Go uint arithmetic on bit tuples.                                       *)
(***************************************************************************)
\* 2^k for the small exponents the model needs
Pow2(k) == 2 ^ k

\* the uint holding the natural number n (n < 2^31), w bits wide
ToWord(n, w) == [i \in 1..w |-> IF i > 31 THEN 0 ELSE (n \div Pow2(i - 1)) % 2]

\* x << k on a uint: bits shifted past the top are lost
Shl(x, k) == [i \in 1..Len(x) |-> IF i - k >= 1 THEN x[i - k] ELSE 0]

\* x >> k on a uint
Shr(x, k) == [i \in 1..Len(x) |-> IF i + k <= Len(x) THEN x[i + k] ELSE 0]

\* x | y
Or(x, y) == [i \in 1..Len(x) |-> IF x[i] = 1 \/ y[i] = 1 THEN 1 ELSE 0]

\* x & y
And(x, y) == [i \in 1..Len(x) |-> IF x[i] = 1 /\ y[i] = 1 THEN 1 ELSE 0]

\* the natural number held in bits lo..hi-1 (0-based, hi - lo <= 30) of x
RECURSIVE Bits(_, _, _)
Bits(x, lo, hi) ==
    IF hi <= lo THEN 0
    ELSE (IF hi <= Len(x) THEN x[hi] ELSE 0) * Pow2(hi - 1 - lo) + Bits(x, lo, hi - 1)

\* TRUE when no bit at position >= from (0-based) is set
ZeroFrom(x, from) == \A i \in (from + 1)..Len(x) : x[i] = 0

\* the value of a uint known to be below 2^30
WordVal(x) == Bits(x, 0, 30)

(***************************************************************************)
(* package ioctl: constants                                                *)
(***************************************************************************)
IOC_NRBITS == 8
IOC_TYPEBITS == 8
IOC_SIZEBITS == 14
IOC_DIRBITS == 2

IOC_NRMASK == Pow2(IOC_NRBITS) - 1
IOC_TYPEMASK == Pow2(IOC_TYPEBITS) - 1
IOC_SIZEMASK == Pow2(IOC_SIZEBITS) - 1
IOC_DIRMASK == Pow2(IOC_DIRBITS) - 1

IOC_NRSHIFT == 0
IOC_TYPESHIFT == IOC_NRSHIFT + IOC_NRBITS
IOC_SIZESHIFT == IOC_TYPESHIFT + IOC_TYPEBITS
IOC_DIRSHIFT == IOC_SIZESHIFT + IOC_SIZEBITS

IOC_NONE == 0
IOC_WRITE == 1
IOC_READ == 2

(***************************************************************************)
(* package ioctl: IOC packs, IOC_DIR/TYPE/NR/SIZE unpack                   *)
(***************************************************************************)
\* a plausible slip: typ and nr shifted into each other's field
IOC_SwappedShifts(dir, typ, nr, size, w) ==
    Or(Or(Or(Shl(ToWord(dir, w), IOC_DIRSHIFT),
             Shl(ToWord(typ, w), IOC_NRSHIFT)),
          Shl(ToWord(nr, w), IOC_TYPESHIFT)),
       Shl(ToWord(size, w), IOC_SIZESHIFT))

\* a plausible slip: each field is masked to its width before it is shifted
IOC_Masked(dir, typ, nr, size, w) ==
    Or(Or(Or(Shl(And(ToWord(dir, w), ToWord(IOC_DIRMASK, w)), IOC_DIRSHIFT),
             Shl(And(ToWord(typ, w), ToWord(IOC_TYPEMASK, w)), IOC_TYPESHIFT)),
          Shl(And(ToWord(nr, w), ToWord(IOC_NRMASK, w)), IOC_NRSHIFT)),
       Shl(And(ToWord(size, w), ToWord(IOC_SIZEMASK, w)), IOC_SIZESHIFT))

\* dir<<IOC_DIRSHIFT | typ<<IOC_TYPESHIFT | nr<<IOC_NRSHIFT | size<<IOC_SIZESHIFT
IOC(dir, typ, nr, size, w) ==
    Or(Or(Or(Shl(ToWord(dir, w), IOC_DIRSHIFT),
             Shl(ToWord(typ, w), IOC_TYPESHIFT)),
          Shl(ToWord(nr, w), IOC_NRSHIFT)),
       Shl(ToWord(size, w), IOC_SIZESHIFT))

\* unsafe.Sizeof of the argument's type
IOC_TYPECHECK(size) == size

IOR(typ, nr, argsize, w) == IOC(IOC_READ, typ, nr, IOC_TYPECHECK(argsize), w)

IOC_DIR(code) == And(Shr(code, IOC_DIRSHIFT), ToWord(IOC_DIRMASK, Len(code)))

IOC_TYPE(code) == And(Shr(code, IOC_TYPESHIFT), ToWord(IOC_TYPEMASK, Len(code)))

IOC_NR(code) == And(Shr(code, IOC_NRSHIFT), ToWord(IOC_NRMASK, Len(code)))

\* a plausible slip: the size extracted with the 8-bit type mask
IOC_SIZE_NarrowMask(code) ==
    And(Shr(code, IOC_SIZESHIFT), ToWord(IOC_TYPEMASK, Len(code)))

IOC_SIZE(code) == And(Shr(code, IOC_SIZESHIFT), ToWord(IOC_SIZEMASK, Len(code)))

(***************************************************************************)
(* package input: event types and their highest codes (doc.go)             *)
(***************************************************************************)
EV_SYN == 0
EV_KEY == 1
EV_REL == 2
EV_ABS == 3
EV_MSC == 4
EV_SW == 5
EV_LED == 17
EV_SND == 18
EV_REP == 20
EV_FF == 21
EV_PWR == 22
EV_FF_STATUS == 23
EV_MAX == 31
EV_CNT == EV_MAX + 1

SYN_MAX == 15
KEY_MAX == 767
REL_MAX == 15
ABS_MAX == 63
MSC_MAX == 7
SW_MAX == 17
LED_MAX == 15
SND_MAX == 7
REP_MAX == 1
FF_MAX == 127
FF_STATUS_MAX == 1

\* 'E', the evdev ioctl magic
MagicE == 69

(***************************************************************************)
(* package input: request codes (h.go)                                     *)
(***************************************************************************)
\* EVIOCGVERSION = ioctl.IOR('E', 0x01, int(0))
EVIOCGVERSION(arch) == IOR(MagicE, 1, SizeofInt(arch), UintBits(arch))

\* EVIOCGID = ioctl.IOR('E', 0x02, ID{})
EVIOCGID(arch) == IOR(MagicE, 2, SizeofID, UintBits(arch))

\* a plausible slip: the name request built with the write direction
EVIOCGNAME_Write(length, arch) == IOC(IOC_WRITE, MagicE, 6, length, UintBits(arch))

\* EVIOCGNAME(length) = ioctl.IOC(ioctl.IOC_READ, 'E', 0x06, length)
EVIOCGNAME(length, arch) == IOC(IOC_READ, MagicE, 6, length, UintBits(arch))

\* a plausible slip: the event type is not added to the base number 0x20
EVIOCGBIT_NoBase(ev, length, arch) ==
    IOC(IOC_READ, MagicE, ev, length, UintBits(arch))

\* EVIOCGBIT(ev, length) = ioctl.IOC(ioctl.IOC_READ, 'E', 0x20+ev, length)
EVIOCGBIT(ev, length, arch) ==
    IOC(IOC_READ, MagicE, 32 + ev, length, UintBits(arch))

(***************************************************************************)
(* package input: TestBit and MaxCodes (h.go)                              *)
(***************************************************************************)
\* b[pos/8] panics with "index out of range" when pos/8 >= len(b)
TestBitPanics(b, pos) == pos \div 8 >= Len(b)

\* a plausible slip: bits counted from the most significant bit of the byte
TestBit_MsbFirst(b, pos) ==
    (b[(pos \div 8) + 1] \div Pow2(7 - (pos % 8))) % 2 # 0

\* b[pos/8]&(1<<(pos%8)) != 0: the byte's bit of weight 2^(pos%8) is set
TestBit(b, pos) ==
    (b[(pos \div 8) + 1] \div Pow2(pos % 8)) % 2 # 0

\* the map literal of MaxCodes
maxCodes ==
    (EV_SYN :> SYN_MAX) @@ (EV_KEY :> KEY_MAX) @@ (EV_REL :> REL_MAX) @@
    (EV_ABS :> ABS_MAX) @@ (EV_MSC :> MSC_MAX) @@ (EV_SW :> SW_MAX) @@
    (EV_LED :> LED_MAX) @@ (EV_SND :> SND_MAX) @@ (EV_REP :> REP_MAX) @@
    (EV_FF :> FF_MAX) @@ (EV_PWR :> 0) @@ (EV_FF_STATUS :> FF_STATUS_MAX)

\* a plausible slip: absence judged by the zero value instead of the ok flag
MaxCodes_ZeroSentinel(eventType) ==
    IF eventType \in DOMAIN maxCodes /\ maxCodes[eventType] # 0
    THEN [maxCode |-> maxCodes[eventType], ok |-> TRUE]
    ELSE [maxCode |-> 0, ok |-> FALSE]

\* maxCode, ok = maxCodes[eventType]: the zero value and false when absent
MaxCodes(eventType) ==
    IF eventType \in DOMAIN maxCodes
    THEN [maxCode |-> maxCodes[eventType], ok |-> TRUE]
    ELSE [maxCode |-> 0, ok |-> FALSE]

(***************************************************************************)
(* Inputs of the pure functions                                            *)
(***************************************************************************)
\* longest byte slice handed to TestBit by the codec specification
MaxBufLen == 2

\* field values: in range, at the edges of each field, and one past the width
DirVals == 0..4
TypVals == {0, 1, MagicE, 255, 256}
NrVals == {0, 1, 32, 255, 256}
SizeVals == {0, 1, 4, 8, 96, 256, 16383, 16384}
LengthVals == {0, 1, 2, 4, 8, 96, 256}
ByteVals == {0, 1, 128, 165, 255}

\* all byte slices of length 1..n over ByteVals
BytesUpTo(n) == UNION {[1..k -> ByteVals] : k \in 1..n}

\* a descriptor table entry with no open file behind it
NoFile == [path |-> "", owner |-> 0]

NoCall == [fn |-> "none"]

NoRet == [panic |-> FALSE]

(***************************************************************************)
(* SpecCodec: the pure functions of packages ioctl and input, applied to   *)
(* inputs drawn from the sets above.                                       *)
(***************************************************************************)
\* the four extractors applied to a request code
Decoded(code) ==
    [panic |-> FALSE, code |-> code,
     dir |-> WordVal(IOC_DIR(code)), typ |-> WordVal(IOC_TYPE(code)),
     nr |-> WordVal(IOC_NR(code)), size |-> WordVal(IOC_SIZE(code))]

\* IOC followed by the four extractors on its result
CallIOC(dir, typ, nr, size) ==
    /\ call = NoCall
    /\ call' = [fn |-> "IOC", dir |-> dir, typ |-> typ, nr |-> nr, size |-> size]
    /\ ret' = Decoded(IOC(dir, typ, nr, size, UintBits(goarch)))
    /\ UNCHANGED <<scan, main, goarch, fdtable, handles, last>>

CallEVIOCGBIT(ev, length) ==
    /\ call = NoCall
    /\ call' = [fn |-> "EVIOCGBIT", ev |-> ev, length |-> length]
    /\ ret' = Decoded(EVIOCGBIT(ev, length, goarch))
    /\ UNCHANGED <<scan, main, goarch, fdtable, handles, last>>

CallEVIOCGNAME(length) ==
    /\ call = NoCall
    /\ call' = [fn |-> "EVIOCGNAME", length |-> length]
    /\ ret' = Decoded(EVIOCGNAME(length, goarch))
    /\ UNCHANGED <<scan, main, goarch, fdtable, handles, last>>

\* the package-level variables, evaluated when the package is initialised
ReadEVIOCGVERSION ==
    /\ call = NoCall
    /\ call' = [fn |-> "EVIOCGVERSION"]
    /\ ret' = Decoded(EVIOCGVERSION(goarch))
    /\ UNCHANGED <<scan, main, goarch, fdtable, handles, last>>

ReadEVIOCGID ==
    /\ call = NoCall
    /\ call' = [fn |-> "EVIOCGID"]
    /\ ret' = Decoded(EVIOCGID(goarch))
    /\ UNCHANGED <<scan, main, goarch, fdtable, handles, last>>

CallTestBit(b, pos) ==
    /\ call = NoCall
    /\ call' = [fn |-> "TestBit", b |-> b, pos |-> pos]
    /\ ret' = IF TestBitPanics(b, pos)
              THEN [panic |-> TRUE]
              ELSE [panic |-> FALSE, v |-> TestBit(b, pos)]
    /\ UNCHANGED <<scan, main, goarch, fdtable, handles, last>>

CallMaxCodes(ev) ==
    /\ call = NoCall
    /\ call' = [fn |-> "MaxCodes", ev |-> ev]
    /\ ret' = [panic |-> FALSE, maxCode |-> MaxCodes(ev).maxCode, ok |-> MaxCodes(ev).ok]
    /\ UNCHANGED <<scan, main, goarch, fdtable, handles, last>>

(***************************************************************************)
(* The operating system seen by package input: device nodes, the           *)
(* descriptor table and the evdev ioctl replies.                           *)
(***************************************************************************)
\* most *Device values created in one run
MaxHandles == 2

\* device nodes that exist, and one that does not
DevPaths == {"/dev/input/event0", "/dev/input/event1"}
MissingPath == "/dev/input/event9"

\* what filepath.Glob("/dev/input/event*") lists: the nodes, sorted by name
GlobPaths == <<"/dev/input/event0", "/dev/input/event1">>

\* descriptors 0, 1 and 2 are the standard streams
Fds == 3..(2 + MaxHandles)

\* open(2) returns the lowest descriptor that is free
LowestFree(tab) == CHOOSE fd \in Fds : tab[fd] = NoFile /\ \A g \in Fds : tab[g] = NoFile => fd <= g

Zeros(n) == [i \in 1..n |-> 0]
Ones(n) == [i \in 1..n |-> 255]
OneByte(n, k, v) == [i \in 1..n |-> IF i = k THEN v ELSE 0]
PatternVals == {16}

\* bitmask replies of n bytes the evdev driver may write
BitReplies(n) ==
    {Zeros(n), Ones(n)} \cup
    {OneByte(n, k, v) : k \in ({1, n - 1, n} \cap (1..n)), v \in PatternVals}

\* struct input_id replies: 8 bytes
IDReplies ==
    {<<3, 0, 109, 4, 142, 194, 17, 1>>, Zeros(8), Ones(8), <<1, 2, 3, 4, 5, 6, 7, 8>>}

\* name replies: n bytes, with and without a terminating NUL
NameReplies(n) ==
    {Zeros(n), [i \in 1..n |-> 65],
     [i \in 1..n |-> IF i <= 3 THEN 64 + i ELSE 0],
     [i \in 1..n |-> IF i \in {1, 3} THEN 65 ELSE 0]}

\* a reply of which the driver wrote only the first m bytes
ShortWrite(r, m) == [i \in 1..Len(r) |-> IF i <= m THEN r[i] ELSE 0]

\* the replies a short write is derived from: longer than a byte, all bytes set alike
Uniform(r) == Len(r) > 1 /\ r[1] # 0 /\ \A i \in 1..Len(r) : r[i] = r[1]

\* errno values ioctl(2) fails with on an open evdev descriptor
IoctlErrnos == {"ENODEV"}

(***************************************************************************)
(* Decoding of the replies (device.go)                                     *)
(***************************************************************************)
\* a plausible slip: the two bytes of a field taken in big-endian order
U16_BigEndian(b, off) == 256 * b[off + 1] + b[off + 2]

\* a uint16 field of struct ID read from memory on a little-endian machine
U16(b, off) == b[off + 1] + 256 * b[off + 2]

\* the ID struct the kernel's 8 bytes are read as
DecodeID(b) ==
    [Bustype |-> U16(b, 0), Vendor |-> U16(b, 2), Product |-> U16(b, 4), Version |-> U16(b, 6)]

HexDigits == <<"0", "1", "2", "3", "4", "5", "6", "7", "8", "9", "a", "b", "c", "d", "e", "f">>

\* fmt's %x verb on an unsigned integer
RECURSIVE Hex(_)
Hex(n) == IF n < 16 THEN HexDigits[n + 1] ELSE Hex(n \div 16) \o HexDigits[(n % 16) + 1]

\* fmt.Sprintf("bus 0x%x vendor 0x%x product 0x%x version 0x%x", ...)
FormatID(id) ==
    "bus 0x" \o Hex(id.Bustype) \o " vendor 0x" \o Hex(id.Vendor) \o
    " product 0x" \o Hex(id.Product) \o " version 0x" \o Hex(id.Version)

\* a plausible slip: only the trailing NUL bytes are cut, bytes.TrimRight(buf, "\x00")
ByteSliceToString_TrimRight(buf) ==
    IF \A i \in 1..Len(buf) : buf[i] = 0
    THEN <<>>
    ELSE SubSeq(buf, 1, CHOOSE i \in 1..Len(buf) :
                            buf[i] # 0 /\ \A j \in (i + 1)..Len(buf) : buf[j] = 0)

\* unix.ByteSliceToString: the bytes before the first NUL, all of them if none
ByteSliceToString(buf) ==
    IF \E i \in 1..Len(buf) : buf[i] = 0
    THEN SubSeq(buf, 1, (CHOOSE i \in 1..Len(buf) : buf[i] = 0 /\ \A j \in 1..(i - 1) : buf[j] # 0) - 1)
    ELSE buf

\* for n = range count { if !TestBit(buf, n) { continue }; append(n) }
RangeLoopPanics(buf, count) == \E n \in 0..(count - 1) : TestBitPanics(buf, n)

\* a plausible slip: the loop stops one index early (range maxCodes)
RangeLoop_OneShort(buf, count) ==
    SelectSeq([i \in 1..(count - 1) |-> i - 1], LAMBDA n : TestBit(buf, n))

RangeLoop(buf, count) ==
    SelectSeq([i \in 1..count |-> i - 1], LAMBDA n : TestBit(buf, n))

\* a plausible slip: the EV_REP test of the loop is left out
EventsLoop_KeepRep(buf) == RangeLoop(buf, EV_CNT)

\* the loop of Events: set bits of 0..EV_CNT-1, EV_REP skipped
EventsLoop(buf) == SelectSeq(RangeLoop(buf, EV_CNT), LAMBDA e : e # EV_REP)

\* a plausible slip: the buffer sized as maxCodes/8
CodesBufLen_Floor(maxCode) == maxCode \div 8

\* make([]byte, (maxCodes+7)/8)
CodesBufLen(maxCode) == (maxCode + 7) \div 8

\* a plausible slip: the buffer sized as EV_MAX/8
EventsBufLen_Floor == EV_MAX \div 8

\* make([]byte, (EV_MAX+7)/8)
EventsBufLen == (EV_MAX + 7) \div 8

\* make([]byte, 256) in Name
NameBufLen == 256

(***************************************************************************)
(* Spec: the Device handle.  A handle is the pair of device.go's struct:   *)
(* file, the *os.File ("open" until its Close has run), and fd, the        *)
(* descriptor number cached by NewDevice.  fdtable[fd] names the open file *)
(* a descriptor number currently refers to, by the handle that opened it.  *)
(***************************************************************************)
\* the record of an operation before its outcome is filled in
Op(name, h) ==
    [op |-> name, h |-> h, path |-> "", ev |-> 0, issued |-> FALSE, ioctls |-> 0,
     fd |-> 0, served |-> NoFile, req |-> <<>>, buflen |-> 0, reply |-> <<>>,
     written |-> 0, result |-> <<>>, isNil |-> TRUE, err |-> "nil", prefix |-> "",
     panic |-> FALSE, env |-> <<>>, tried |-> 0, errno |-> "0"]

\* ioctl.Any: one SYS_IOCTL on fd; the errno is returned as it is, nil when 0.
\* The kernel answers EBADF for a descriptor number with no open file, and
\* otherwise fails or writes one of the replies into the buffer.
\* written is the byte count the driver copied, the r1 of the system call,
\* which Any discards; the bytes it did not write keep make's zeros.
ioctlAny(tab, fd, replies) ==
    IF tab[fd] = NoFile
    THEN {[errno |-> "EBADF", reply |-> <<>>, written |-> 0]}
    ELSE {[errno |-> e, reply |-> <<>>, written |-> 0] : e \in IoctlErrnos} \cup
         {[errno |-> "0", reply |-> r, written |-> Len(r)] : r \in replies} \cup
         {[errno |-> "0", reply |-> ShortWrite(r, 1), written |-> 1] :
              r \in {x \in replies : Uniform(x)}}

\* the part of an operation's record that describes its ioctl call
Issued(name, h, req, buflen, out) ==
    [Op(name, h) EXCEPT !.issued = TRUE, !.ioctls = 1, !.fd = handles[h].fd,
                        !.served = fdtable[handles[h].fd], !.req = req,
                        !.buflen = buflen, !.reply = out.reply,
                        !.written = out.written, !.errno = out.errno]

\* no call of Devices is in progress
NoScan == [i |-> 0, fds |-> <<>>]

\* the handles a running Devices is still to return
ScanReserve == IF scan = NoScan THEN 0 ELSE Len(GlobPaths)

\* paths handed to NewDevice: a node that exists and one that does not
NewDeviceInputs == {GlobPaths[1], MissingPath}

\* a plausible slip: the file is opened with os.O_CREATE, so a missing path opens
OpenErrnos_Create(path) == {"0", "EACCES"}

\* os.OpenFile(filepath.Clean(path), os.O_RDWR, 0)
OpenErrnos(path) == IF path \in DevPaths THEN {"0", "EACCES"} ELSE {"ENOENT"}

\* a plausible slip: a node that is open already is not opened again, the new
\* handle shares the descriptor of the open file
NewDevice_Shared(path) ==
    /\ last.op = "none"
    /\ Len(handles) + ScanReserve < MaxHandles
    /\ \E fd \in Fds : fdtable[fd] = NoFile
    /\ \E e \in OpenErrnos(path) :
         IF e # "0"
         THEN /\ last' = [Op("NewDevice", 0) EXCEPT !.path = path, !.err = e,
                                                   !.prefix = "input.NewDevice"]
              /\ UNCHANGED <<fdtable, handles>>
         ELSE LET shared == {fd \in Fds : fdtable[fd].path = path}
                  fd == IF shared # {} THEN CHOOSE f \in shared : TRUE
                        ELSE LowestFree(fdtable)
                  h == Len(handles) + 1
              IN /\ fdtable' = IF shared # {} THEN fdtable
                               ELSE [fdtable EXCEPT ![fd] = [path |-> path, owner |-> h]]
                 /\ handles' = Append(handles, [file |-> "open", fd |-> fd])
                 /\ last' = [Op("NewDevice", h) EXCEPT !.path = path, !.fd = fd,
                                                       !.isNil = FALSE]
    /\ UNCHANGED <<scan, main, goarch, call, ret>>

NewDevice(path) ==
    /\ last.op = "none"
    /\ Len(handles) + ScanReserve < MaxHandles
    /\ \E fd \in Fds : fdtable[fd] = NoFile
    /\ \E e \in OpenErrnos(path) :
         IF e # "0"
         THEN /\ last' = [Op("NewDevice", 0) EXCEPT !.path = path, !.err = e,
                                                   !.prefix = "input.NewDevice"]
              /\ UNCHANGED <<fdtable, handles>>
         ELSE LET fd == LowestFree(fdtable)
                  h == Len(handles) + 1
              IN /\ fdtable' = [fdtable EXCEPT ![fd] = [path |-> path, owner |-> h]]
                 /\ handles' = Append(handles, [file |-> "open", fd |-> fd])
                 /\ last' = [Op("NewDevice", h) EXCEPT !.path = path, !.fd = fd,
                                                       !.isNil = FALSE]
    /\ UNCHANGED <<scan, main, goarch, call, ret>>

\* the open(2) outcomes of the listed nodes: "0" or the errno one fails with
GlobErrnos == UNION {OpenErrnos(GlobPaths[i]) : i \in 1..Len(GlobPaths)}

\* the descriptors that are free
FreeFds(tab) == {fd \in Fds : tab[fd] = NoFile}

\* a plausible slip: the loop steps over every other path
DevicesNext_Skip(i) == i + 2

\* for _, path = range paths: the index of the path after paths[i]
DevicesNext(i) == i + 1

\* a plausible slip: the handles opened before the failure are returned
DevicesKept_Partial(e) == TRUE

\* devices is returned only when every node opened; on an error the
\* function returns nil and the *Device values it built are dropped
DevicesKept(e) == e = "0"

\* the caller's handles after Devices returned the devices it opened on fds
DevicesHandles(hs, fds) ==
    hs \o [k \in 1..Len(fds) |-> [file |-> "open", fd |-> fds[k]]]

\* the descriptor table once the caller holds the returned devices as the
\* handles base + 1 ..; owner 0 marks an open file no *Device of a caller
\* refers to
DevicesOwned(tab, fds, base) ==
    [fd \in Fds |->
        IF \E k \in 1..Len(fds) : fds[k] = fd
        THEN [tab[fd] EXCEPT !.owner = base + CHOOSE k \in 1..Len(fds) : fds[k] = fd]
        ELSE tab[fd]]

\* One iteration of the loop of Devices, with the call's entry before the
\* first one and its return after the last: NewDevice opens the next listed
\* node with outcome e.  Between two iterations the other goroutines of the
\* program run, among them the finalizer's.
Devices(e) ==
    /\ last.op = "none"
    /\ scan = NoScan => Len(handles) + Len(GlobPaths) <= MaxHandles
    /\ FreeFds(fdtable) # {}
    /\ LET i == IF scan = NoScan THEN 1 ELSE scan.i
           env == [k \in 1..(i - 1) |-> "0"] \o <<e>>
           fd == LowestFree(fdtable)
           tab == IF e = "0"
                  THEN [fdtable EXCEPT ![fd] = [path |-> GlobPaths[i], owner |-> 0]]
                  ELSE fdtable
           fds == IF e = "0" THEN Append(scan.fds, fd) ELSE scan.fds
           kept == DevicesKept(e)
           base == Len(handles)
       IN /\ e \in OpenErrnos(GlobPaths[i])
          /\ IF e = "0" /\ DevicesNext(i) <= Len(GlobPaths)
             THEN /\ scan' = [i |-> DevicesNext(i), fds |-> fds]
                  /\ fdtable' = tab
                  /\ UNCHANGED <<handles, last>>
             ELSE /\ scan' = NoScan
                  /\ fdtable' = IF kept THEN DevicesOwned(tab, fds, base) ELSE tab
                  /\ handles' = IF kept THEN DevicesHandles(handles, fds) ELSE handles
                  /\ last' = [Op("Devices", 0) EXCEPT
                                  !.env = env, !.tried = Len(env),
                                  !.result = IF kept THEN [k \in 1..Len(fds) |-> base + k]
                                             ELSE <<>>,
                                  !.isNil = e # "0",
                                  !.err = IF e = "0" THEN "nil" ELSE e,
                                  !.prefix = IF e = "0" THEN "" ELSE "input.Devices"]
    /\ UNCHANGED <<main, goarch, call, ret>>

\* the runtime finalizer of an *os.File nothing refers to any more closes
\* its descriptor at some later garbage collection; the files a running
\* Devices has opened are referred to by its devices slice
Finalize(fd) ==
    /\ last.op = "none"
    /\ fdtable[fd] # NoFile /\ fdtable[fd].owner = 0
    /\ \A k \in 1..Len(scan.fds) : scan.fds[k] # fd
    /\ fdtable' = [fdtable EXCEPT ![fd] = NoFile]
    /\ UNCHANGED <<scan, main, goarch, call, ret, handles, last>>

\* a plausible slip: a failed ioctl is tried a second time before giving up
Name_Retry(h) ==
    /\ last.op = "none"
    /\ h \in 1..Len(handles)
    /\ LET req == EVIOCGNAME(NameBufLen, goarch) IN
       \E out \in ioctlAny(fdtable, handles[h].fd, NameReplies(WordVal(IOC_SIZE(req)))) :
         last' = IF out.errno # "0"
                 THEN [Issued("Name", h, req, NameBufLen, out) EXCEPT
                           !.err = out.errno, !.prefix = "Device.Name", !.ioctls = 2]
                 ELSE [Issued("Name", h, req, NameBufLen, out) EXCEPT
                           !.result = ByteSliceToString(out.reply), !.isNil = FALSE]
    /\ UNCHANGED <<scan, main, goarch, call, ret, fdtable, handles>>

Name(h) ==
    /\ last.op = "none"
    /\ h \in 1..Len(handles)
    /\ LET req == EVIOCGNAME(NameBufLen, goarch) IN
       \E out \in ioctlAny(fdtable, handles[h].fd, NameReplies(WordVal(IOC_SIZE(req)))) :
         last' = IF out.errno # "0"
                 THEN [Issued("Name", h, req, NameBufLen, out) EXCEPT
                           !.err = out.errno, !.prefix = "Device.Name"]
                 ELSE [Issued("Name", h, req, NameBufLen, out) EXCEPT
                           !.result = ByteSliceToString(out.reply), !.isNil = FALSE]
    /\ UNCHANGED <<scan, main, goarch, call, ret, fdtable, handles>>

ID(h) ==
    /\ last.op = "none"
    /\ h \in 1..Len(handles)
    /\ LET req == EVIOCGID(goarch) IN
       \E out \in ioctlAny(fdtable, handles[h].fd, IDReplies) :
         last' = IF out.errno # "0"
                 THEN [Issued("ID", h, req, SizeofID, out) EXCEPT
                           !.err = out.errno, !.prefix = "Device.ID"]
                 ELSE [Issued("ID", h, req, SizeofID, out) EXCEPT
                           !.result = FormatID(DecodeID(out.reply)), !.isNil = FALSE]
    /\ UNCHANGED <<scan, main, goarch, call, ret, fdtable, handles>>

\* a plausible slip: the handle is closed when its ioctl has failed
Events_CloseOnError(h) ==
    /\ last.op = "none"
    /\ h \in 1..Len(handles)
    /\ LET buflen == EventsBufLen
           req == EVIOCGBIT(0, buflen, goarch)
       IN
       \E out \in ioctlAny(fdtable, handles[h].fd, BitReplies(WordVal(IOC_SIZE(req)))) :
         /\ last' = IF out.errno # "0"
                    THEN [Issued("Events", h, req, buflen, out) EXCEPT
                              !.err = out.errno, !.prefix = "Device.Events"]
                    ELSE IF RangeLoopPanics(out.reply, EV_CNT)
                    THEN [Issued("Events", h, req, buflen, out) EXCEPT !.panic = TRUE]
                    ELSE [Issued("Events", h, req, buflen, out) EXCEPT
                              !.result = EventsLoop(out.reply), !.isNil = FALSE]
         /\ handles' = IF out.errno # "0"
                       THEN [handles EXCEPT ![h].file = "closed"]
                       ELSE handles
         /\ fdtable' = IF out.errno # "0" /\ handles[h].file = "open"
                       THEN [fdtable EXCEPT ![handles[h].fd] = NoFile]
                       ELSE fdtable
    /\ UNCHANGED <<scan, main, goarch, call, ret>>

Events(h) ==
    /\ last.op = "none"
    /\ h \in 1..Len(handles)
    /\ LET buflen == EventsBufLen
           req == EVIOCGBIT(0, buflen, goarch)
       IN
       \E out \in ioctlAny(fdtable, handles[h].fd, BitReplies(WordVal(IOC_SIZE(req)))) :
         last' = IF out.errno # "0"
                 THEN [Issued("Events", h, req, buflen, out) EXCEPT
                           !.err = out.errno, !.prefix = "Device.Events"]
                 ELSE IF RangeLoopPanics(out.reply, EV_CNT)
                 THEN [Issued("Events", h, req, buflen, out) EXCEPT !.panic = TRUE]
                 ELSE [Issued("Events", h, req, buflen, out) EXCEPT
                           !.result = EventsLoop(out.reply), !.isNil = FALSE]
    /\ UNCHANGED <<scan, main, goarch, call, ret, fdtable, handles>>

\* event types handed to Codes: every category number and one past EV_MAX
CodesInputs == 0..EV_CNT

Codes(h, eventType) ==
    /\ last.op = "none"
    /\ h \in 1..Len(handles)
    /\ LET mc == MaxCodes(eventType)
           buflen == CodesBufLen(mc.maxCode)
           req == EVIOCGBIT(eventType, buflen, goarch)
       IN
       IF ~mc.ok
       THEN last' = [Op("Codes", h) EXCEPT !.ev = eventType, !.err = "ErrInvalidEventType",
                                          !.prefix = "Device.Codes"]
       ELSE IF buflen = 0
       THEN \* &buf[0] on an empty slice: index out of range, before the call
            last' = [Op("Codes", h) EXCEPT !.ev = eventType, !.buflen = buflen,
                                          !.panic = TRUE]
       ELSE
       \E out \in ioctlAny(fdtable, handles[h].fd, BitReplies(WordVal(IOC_SIZE(req)))) :
         last' = IF out.errno # "0"
                 THEN [Issued("Codes", h, req, buflen, out) EXCEPT
                           !.ev = eventType, !.err = out.errno, !.prefix = "Device.Codes"]
                 ELSE IF RangeLoopPanics(out.reply, mc.maxCode + 1)
                 THEN [Issued("Codes", h, req, buflen, out) EXCEPT
                           !.ev = eventType, !.panic = TRUE]
                 ELSE [Issued("Codes", h, req, buflen, out) EXCEPT
                           !.ev = eventType, !.isNil = FALSE,
                           !.result = RangeLoop(out.reply, mc.maxCode + 1)]
    /\ UNCHANGED <<scan, main, goarch, call, ret, fdtable, handles>>

\* a plausible slip: the cached descriptor number is closed, unix.Close(dev.fd),
\* whatever the state of the file
Close_ByFd(h) ==
    /\ last.op = "none"
    /\ h \in 1..Len(handles)
    /\ fdtable' = [fdtable EXCEPT ![handles[h].fd] = NoFile]
    /\ handles' = [handles EXCEPT ![h].file = "closed"]
    /\ last' = [Op("Close", h) EXCEPT
                    !.fd = handles[h].fd,
                    !.err = IF fdtable[handles[h].fd] = NoFile THEN "EBADF" ELSE "nil"]
    /\ UNCHANGED <<scan, main, goarch, call, ret>>

\* dev.file.Close(): os.ErrClosed when the file was closed before
Close(h) ==
    /\ last.op = "none"
    /\ h \in 1..Len(handles)
    /\ IF handles[h].file = "open"
       THEN /\ fdtable' = [fdtable EXCEPT ![handles[h].fd] = NoFile]
            /\ handles' = [handles EXCEPT ![h].file = "closed"]
            /\ last' = [Op("Close", h) EXCEPT !.fd = handles[h].fd]
       ELSE /\ last' = [Op("Close", h) EXCEPT !.err = "ErrClosed", !.prefix = "Device.Close"]
            /\ UNCHANGED <<fdtable, handles>>
    /\ UNCHANGED <<scan, main, goarch, call, ret>>

\* the caller has taken the outcome of the last operation and goes on
Return ==
    /\ last.op # "none"
    /\ last' = Op("none", 0)
    /\ UNCHANGED <<scan, main, goarch, call, ret, fdtable, handles>>

(***************************************************************************)
(* The inputdevices command (package main).  pc names the call it makes    *)
(* next; devs is the slice Devices returned and i the device of the loop;  *)
(* events is what Events returned for it and j the event of the inner      *)
(* loop; trace lists the calls made so far with what they were made on.    *)
(***************************************************************************)
\* before the package-level devices variable is initialised
MainStart ==
    [pc |-> "Devices", devs |-> <<>>, i |-> 0, events |-> <<>>, j |-> 0, trace |-> <<>>]

\* the outer loop goes to the next device, or main prints and returns
MainNextDevice(m) ==
    IF m.i < Len(m.devs)
    THEN [m EXCEPT !.pc = "ID", !.i = m.i + 1, !.events = <<>>, !.j = 0]
    ELSE [m EXCEPT !.pc = "done", !.events = <<>>, !.j = 0]

\* a plausible slip: Close is called inside the loop over the events, so a
\* device without events is left open
MainAfterEvents_CloseInLoop(m, events) ==
    IF events = <<>>
    THEN MainNextDevice(m)
    ELSE [m EXCEPT !.pc = "Codes", !.events = events, !.j = 1]

\* events, err = dev.Events(): the inner loop starts, or is skipped
MainAfterEvents(m, events) ==
    IF events = <<>>
    THEN [m EXCEPT !.pc = "Close", !.events = events, !.j = 0]
    ELSE [m EXCEPT !.pc = "Codes", !.events = events, !.j = 1]

\* where main is after the call recorded in l has returned: exitIf ends the
\* process on an error, a panic ends it too
MainAfter(m, l) ==
    IF l.panic THEN [m EXCEPT !.pc = "panic"]
    ELSE IF l.err # "nil" THEN [m EXCEPT !.pc = "exit1"]
    ELSE IF l.op = "Devices" THEN MainNextDevice([m EXCEPT !.devs = l.result, !.i = 0])
    ELSE IF l.op = "ID" THEN [m EXCEPT !.pc = "Name"]
    ELSE IF l.op = "Name" THEN [m EXCEPT !.pc = "Events"]
    ELSE IF l.op = "Events" THEN MainAfterEvents(m, l.result)
    ELSE IF l.op = "Codes"
    THEN IF m.j < Len(m.events) THEN [m EXCEPT !.j = m.j + 1] ELSE [m EXCEPT !.pc = "Close"]
    ELSE MainNextDevice(m)

\* the entry of the trace for the call recorded in l
TraceEntry(l) ==
    [op |-> l.op, h |-> l.h, ev |-> l.ev, ok |-> l.err = "nil" /\ ~l.panic,
     list |-> IF l.op \in {"Devices", "Events"} THEN l.result ELSE <<>>]

\* var devices = func() { devs, err = input.Devices(); exitIf(err) }()
MainDevices ==
    /\ main.pc = "Devices"
    /\ \E e \in GlobErrnos : Devices(e)

\* id, err = dev.ID()
MainID ==
    /\ main.pc = "ID"
    /\ ID(main.devs[main.i])

\* name, err = dev.Name()
MainName ==
    /\ main.pc = "Name"
    /\ Name(main.devs[main.i])

\* events, err = dev.Events()
MainEvents ==
    /\ main.pc = "Events"
    /\ Events(main.devs[main.i])

\* codes, err = dev.Codes(event)
MainCodes ==
    /\ main.pc = "Codes"
    /\ Codes(main.devs[main.i], main.events[main.j])

\* err = dev.Close()
MainClose ==
    /\ main.pc = "Close"
    /\ Close(main.devs[main.i])

\* exitIf(err) and the statements up to the next call
MainContinue ==
    /\ last.op # "none"
    /\ main' = [MainAfter(main, last) EXCEPT !.trace = Append(main.trace, TraceEntry(last))]
    /\ last' = Op("none", 0)
    /\ UNCHANGED <<scan, goarch, call, ret, fdtable, handles>>

MainNext ==
    \/ MainDevices
    \/ MainID
    \/ MainName
    \/ MainEvents
    \/ MainCodes
    \/ MainClose
    \/ MainContinue

(***************************************************************************)
(* Specifications                                                          *)
(***************************************************************************)
Init ==
    /\ goarch \in GoArchs
    /\ call = NoCall
    /\ ret = NoRet
    /\ fdtable = [fd \in Fds |-> NoFile]
    /\ handles = <<>>
    /\ last = Op("none", 0)
    /\ scan = NoScan
    /\ main = MainStart

Next ==
    \/ \E path \in NewDeviceInputs : NewDevice(path)
    \/ \E e \in GlobErrnos : Devices(e)
    \/ \E fd \in Fds : Finalize(fd)
    \/ \E h \in 1..MaxHandles : Name(h)
    \/ \E h \in 1..MaxHandles : ID(h)
    \/ \E h \in 1..MaxHandles : Events(h)
    \/ \E h \in 1..MaxHandles, eventType \in CodesInputs : Codes(h, eventType)
    \/ \E h \in 1..MaxHandles : Close(h)
    \/ Return

Spec == Init /\ [][Next]_vars

\* the run of the inputdevices command
SpecCLI == Init /\ [][MainNext]_vars

\* the caller is done with the result of the last call
CodecReturn ==
    /\ call # NoCall
    /\ call' = NoCall
    /\ ret' = NoRet
    /\ UNCHANGED <<scan, main, goarch, fdtable, handles, last>>

CodecNext ==
    \/ \E dir \in DirVals, typ \in TypVals, nr \in NrVals, size \in SizeVals :
         CallIOC(dir, typ, nr, size)
    \/ \E ev \in 0..EV_MAX, length \in LengthVals : CallEVIOCGBIT(ev, length)
    \/ \E length \in LengthVals : CallEVIOCGNAME(length)
    \/ ReadEVIOCGVERSION
    \/ ReadEVIOCGID
    \/ \E b \in BytesUpTo(MaxBufLen), pos \in 0..(8 * MaxBufLen) : CallTestBit(b, pos)
    \/ \E ev \in CodesInputs : CallMaxCodes(ev)
    \/ CodecReturn

SpecCodec == Init /\ [][CodecNext]_vars

(***************************************************************************)
(* SpecXdg: package xdg.  A path is held as filepath sees it: rooted or    *)
(* not, and its elements in order; the empty string is the unrooted path   *)
(* with no element.  An environment variable that is unset reads as the    *)
(* empty string, as with os.Getenv.                                        *)
(***************************************************************************)
EmptyPath == [abs |-> FALSE, segs |-> <<>>]

\* "/"
RootPath == [abs |-> TRUE, segs |-> <<>>]

\* filepath.IsAbs
IsAbs(p) == p.abs

\* filepath.Join: empty elements are ignored, the others are joined with "/"
\* and cleaned; the result is rooted when the first element that is not
\* empty is.  No element is expanded or interpreted.
RECURSIVE Join(_)
Join(elems) ==
    IF elems = <<>> THEN EmptyPath
    ELSE LET a == elems[1]
             rest == Join(Tail(elems))
         IN IF a = EmptyPath THEN rest
            ELSE [abs |-> a.abs, segs |-> a.segs \o rest.segs]

\* filepath.Dir: the path without its last element
Dir(p) ==
    IF p.segs = <<>> THEN p
    ELSE [abs |-> p.abs, segs |-> SubSeq(p.segs, 1, Len(p.segs) - 1)]

\* func home(): $HOME, or "/" when it is empty
home(getenv) == IF getenv["HOME"] = EmptyPath THEN RootPath ELSE getenv["HOME"]

\* func xdg(env, subPaths...): the variable's value when it is set to an
\* absolute path, else the subPaths joined
xdg(getenv, env, subPaths) ==
    IF getenv[env] = EmptyPath \/ ~IsAbs(getenv[env])
    THEN Join(subPaths)
    ELSE getenv[env]

\* func xdgFile: MkdirAll of the directory, then OpenFile with O_RDWR|O_CREATE;
\* fs gives the errno of each of the two
xdgFile(xdgPath, relPath, fs) ==
    LET path == Join(<<xdgPath, relPath>>) IN
    IF fs.mkdir # "0"
    THEN [panic |-> FALSE, isNil |-> TRUE, err |-> fs.mkdir, prefix |-> "xdg.xdgFile",
          mkdir |-> Dir(path), opened |-> EmptyPath]
    ELSE IF fs.open # "0"
    THEN [panic |-> FALSE, isNil |-> TRUE, err |-> fs.open, prefix |-> "xdg.xdgFile",
          mkdir |-> Dir(path), opened |-> EmptyPath]
    ELSE [panic |-> FALSE, isNil |-> FALSE, err |-> "nil", prefix |-> "",
          mkdir |-> Dir(path), opened |-> path]

\* the second subPath ConfigFile hands to xdg
ConfigSub == [abs |-> FALSE, segs |-> <<".config">>]

\* ConfigFile: xdgFile(xdg("XDG_CONFIG_HOME", home(), ".config"), relPath)
ConfigFile(getenv, relPath, fs) ==
    xdgFile(xdg(getenv, "XDG_CONFIG_HOME", <<home(getenv), ConfigSub>>), relPath, fs)

\* the second subPath CacheFile hands to xdg: the string "$HOME/.cache"
CacheSub == [abs |-> FALSE, segs |-> <<"$HOME", ".cache">>]

\* CacheFile: xdgFile(xdg("XDG_CACHE_HOME", home(), "$HOME/.cache"), relPath)
CacheFile(getenv, relPath, fs) ==
    xdgFile(xdg(getenv, "XDG_CACHE_HOME", <<home(getenv), CacheSub>>), relPath, fs)

\* values of $HOME: unset, a home directory, a relative path
HomeVals ==
    {EmptyPath, [abs |-> TRUE, segs |-> <<"home", "u">>], [abs |-> FALSE, segs |-> <<"u">>]}

\* values of $XDG_CACHE_HOME and $XDG_CONFIG_HOME: unset, relative, absolute
XdgVals ==
    {EmptyPath, [abs |-> FALSE, segs |-> <<"cache">>],
     [abs |-> TRUE, segs |-> <<"xdg">>], [abs |-> TRUE, segs |-> <<"var", "u">>]}

\* relative paths of the file asked for
RelVals ==
    {[abs |-> FALSE, segs |-> <<"app.cache">>],
     [abs |-> FALSE, segs |-> <<"appname", "app.cache">>],
     [abs |-> FALSE, segs |-> <<"a", "b", "c">>]}

\* errno of MkdirAll and of OpenFile
FsVals == [mkdir : {"0", "EACCES"}, open : {"0", "EACCES"}]

CallCacheFile(homeVal, xdgVal, relPath, fs) ==
    /\ call = NoCall
    /\ call' = [fn |-> "CacheFile", HOME |-> homeVal, XDG |-> xdgVal,
                rel |-> relPath, fs |-> fs]
    /\ ret' = CacheFile(("HOME" :> homeVal) @@ ("XDG_CACHE_HOME" :> xdgVal), relPath, fs)
    /\ UNCHANGED <<scan, main, goarch, fdtable, handles, last>>

CallConfigFile(homeVal, xdgVal, relPath, fs) ==
    /\ call = NoCall
    /\ call' = [fn |-> "ConfigFile", HOME |-> homeVal, XDG |-> xdgVal,
                rel |-> relPath, fs |-> fs]
    /\ ret' = ConfigFile(("HOME" :> homeVal) @@ ("XDG_CONFIG_HOME" :> xdgVal), relPath, fs)
    /\ UNCHANGED <<scan, main, goarch, fdtable, handles, last>>

XdgNext ==
    \/ \E homeVal \in HomeVals, xdgVal \in XdgVals, relPath \in RelVals, fs \in FsVals :
         CallCacheFile(homeVal, xdgVal, relPath, fs)
    \/ \E homeVal \in HomeVals, xdgVal \in XdgVals, relPath \in RelVals, fs \in FsVals :
         CallConfigFile(homeVal, xdgVal, relPath, fs)
    \/ CodecReturn

SpecXdg == Init /\ [][XdgNext]_vars

(***************************************************************************)
(* Properties                                                              *)
(***************************************************************************)
\* the call was IOC with every field within its bit width
InRangeIOC ==
    /\ call.fn = "IOC"
    /\ call.dir \in 0..3 /\ call.typ \in 0..255
    /\ call.nr \in 0..255 /\ call.size \in 0..16383

\* C1: for in-range dir, typ, nr and size, IOC_DIR, IOC_TYPE, IOC_NR and
\* IOC_SIZE applied to IOC(dir, typ, nr, size) give back dir, typ, nr, size.
C1_RoundTrip ==
    InRangeIOC =>
        /\ ret.dir = call.dir /\ ret.typ = call.typ
        /\ ret.nr = call.nr /\ ret.size = call.size

C1_Witness ==
    /\ InRangeIOC
    /\ call.dir = 3 /\ call.typ = 255 /\ call.nr = 255 /\ call.size = 16383
    /\ ret.size = 16383

\* C2: for in-range fields IOC(dir, typ, nr, size) is
\* dir*2^30 + size*2^16 + typ*2^8 + nr: nr in bits [0,8), typ in bits [8,16),
\* size in bits [16,30), dir in bits [30,32), nothing at or above bit 32.
C2_Layout ==
    InRangeIOC =>
        /\ Bits(ret.code, 0, 8) = call.nr
        /\ Bits(ret.code, 8, 16) = call.typ
        /\ Bits(ret.code, 16, 30) = call.size
        /\ Bits(ret.code, 30, 32) = call.dir
        /\ Bits(ret.code, 0, 16) = call.typ * 256 + call.nr
        /\ Bits(ret.code, 16, 32) = call.dir * 16384 + call.size
        /\ ZeroFrom(ret.code, 32)

C2_Witness ==
    /\ InRangeIOC
    /\ call.dir = 2 /\ call.typ = MagicE /\ call.nr = 32 /\ call.size = 4
    /\ Bits(ret.code, 0, 16) = 17696

\* C3: EVIOCGBIT(0, 4) is IOC(IOC_READ, 0x45, 0x20, 4), the number
\* 0x80044520 (high half 0x8004 = 32772, low half 0x4520 = 17696).
C3_EviocgbitLiteral ==
    (call.fn = "EVIOCGBIT" /\ call.ev = 0 /\ call.length = 4) =>
        /\ ret.code = IOC(IOC_READ, 69, 32, 4, UintBits(goarch))
        /\ Bits(ret.code, 16, 32) = 32772
        /\ Bits(ret.code, 0, 16) = 17696
        /\ ZeroFrom(ret.code, 32)

C3_Witness ==
    /\ call.fn = "EVIOCGBIT" /\ call.ev = 0 /\ call.length = 4
    /\ ret.nr = 32 /\ ret.size = 4

\* C4: every request code Name, ID, Events and Codes hand to ioctl.Any has
\* direction read (write bit clear) and magic 0x45, with number and size
\* Name (0x06, 256), ID (0x02, 8), Events (0x20, 4),
\* Codes(c) (0x20 + c, length of the allocated buffer).
C4_RequestTable ==
    last.issued =>
        /\ Bits(last.req, 30, 32) = IOC_READ
        /\ Bits(last.req, 30, 31) = 0
        /\ Bits(last.req, 8, 16) = 69
        /\ ZeroFrom(last.req, 32)
        /\ last.op \in {"Name", "ID", "Events", "Codes"}
        /\ last.op = "Name" =>
             Bits(last.req, 0, 8) = 6 /\ Bits(last.req, 16, 30) = 256
        /\ last.op = "ID" =>
             Bits(last.req, 0, 8) = 2 /\ Bits(last.req, 16, 30) = 8
        /\ last.op = "Events" =>
             Bits(last.req, 0, 8) = 32 /\ Bits(last.req, 16, 30) = 4
        /\ last.op = "Codes" =>
             /\ Bits(last.req, 0, 8) = 32 + last.ev
             /\ Bits(last.req, 16, 30) = last.buflen
             /\ Len(last.reply) \in {0, last.buflen}

C4_Witness ==
    /\ last.issued /\ last.op = "Codes" /\ last.ev = EV_FF_STATUS
    /\ last.err = "nil" /\ Bits(last.req, 0, 8) = 55

\* C5 (as claimed): EVIOCGVERSION encodes direction read, magic 0x45,
\* number 0x01 and a payload size of 4 bytes.
C5_VersionSize4 ==
    call.fn = "EVIOCGVERSION" =>
        ret.dir = IOC_READ /\ ret.typ = 69 /\ ret.nr = 1 /\ ret.size = 4

\* C6: ID reads the 8-byte reply as four little-endian 16-bit fields in the
\* order bustype, vendor, product, version and prints them with %x; the
\* bytes 03 00 6d 04 8e c2 11 01 give
\* "bus 0x3 vendor 0x46d product 0xc28e version 0x111".
C6_IDDecode ==
    (last.op = "ID" /\ last.err = "nil") =>
        /\ last.reply = <<3, 0, 109, 4, 142, 194, 17, 1>> =>
             last.result = "bus 0x3 vendor 0x46d product 0xc28e version 0x111"
        /\ last.reply = <<1, 2, 3, 4, 5, 6, 7, 8>> =>
             last.result = "bus 0x201 vendor 0x403 product 0x605 version 0x807"
        /\ last.reply = Zeros(8) =>
             last.result = "bus 0x0 vendor 0x0 product 0x0 version 0x0"
        /\ last.reply = Ones(8) =>
             last.result = "bus 0xffff vendor 0xffff product 0xffff version 0xffff"

C6_Witness ==
    /\ last.op = "ID" /\ last.err = "nil"
    /\ last.reply = <<3, 0, 109, 4, 142, 194, 17, 1>>
    /\ last.result = "bus 0x3 vendor 0x46d product 0xc28e version 0x111"

\* bit i of a byte slice, counted from the least significant bit of byte i div 8
BitAt(b, i) == (b[(i \div 8) + 1] \div (2 ^ (i % 8))) % 2 = 1

\* C7: TestBit(b, i) is true exactly when bit (i mod 8), counted from the
\* least significant bit, of byte b[i div 8] is set, whenever i div 8 < len(b).
C7_TestBit ==
    (call.fn = "TestBit" /\ call.pos \div 8 < Len(call.b)) =>
        /\ ~ret.panic
        /\ ret.v = BitAt(call.b, call.pos)

C7_Witness ==
    /\ call.fn = "TestBit" /\ call.b = <<1, 128>> /\ call.pos = 15
    /\ ~ret.panic /\ ret.v = TRUE

\* ceil(a / b)
CeilDiv(a, b) == (a + b - 1) \div b

\* s is strictly ascending
Ascending(s) == \A i \in 1..(Len(s) - 1) : s[i] < s[i + 1]

\* the elements of s
Range(s) == {s[i] : i \in 1..Len(s)}

\* Codes(c) returned from a kernel buffer of ceil((max+1)/8) bytes
CodesDecoded ==
    /\ last.op = "Codes" /\ MaxCodes(last.ev).ok
    /\ last.issued /\ last.err = "nil"
    /\ Len(last.reply) = CeilDiv(MaxCodes(last.ev).maxCode + 1, 8)

\* C8: for a category c with bound max and a kernel buffer of
\* ceil((max+1)/8) bytes, Codes(c) returns exactly the indices in [0, max]
\* whose bit is set, ascending and without duplicates; all zeros give the
\* empty result and all ones give 0..max.
C8_CodesDecode ==
    CodesDecoded =>
        LET max == MaxCodes(last.ev).maxCode IN
        /\ ~last.panic
        /\ Ascending(last.result)
        /\ Range(last.result) = {i \in 0..max : BitAt(last.reply, i)}
        /\ last.reply = Zeros(Len(last.reply)) => last.result = <<>>
        /\ last.reply = Ones(Len(last.reply)) =>
             last.result = [i \in 1..(max + 1) |-> i - 1]

C8_Witness ==
    /\ CodesDecoded /\ last.ev = EV_SW
    /\ last.reply = Ones(3) /\ Len(last.result) = 18

\* C9 (as claimed): for every category of the MaxCodes table, also one whose
\* bound is 0, Codes issues a bitmask read whose buffer length and encoded
\* size are ceil((max+1)/8) bytes.
C9_BufferCeil ==
    (last.op = "Codes" /\ MaxCodes(last.ev).ok) =>
        /\ last.issued
        /\ last.buflen = CeilDiv(MaxCodes(last.ev).maxCode + 1, 8)
        /\ Bits(last.req, 16, 30) = CeilDiv(MaxCodes(last.ev).maxCode + 1, 8)

\* C10: Codes(EV_KEY), KEY_MAX being 0x2ff, allocates and requests a buffer
\* of exactly 96 bytes.
C10_KeyBuffer96 ==
    (last.op = "Codes" /\ last.ev = 1) =>
        /\ last.issued
        /\ last.buflen = 96
        /\ Bits(last.req, 16, 30) = 96
        /\ last.err = "nil" => Len(last.reply) = 96

C10_Witness ==
    /\ last.op = "Codes" /\ last.ev = 1 /\ last.issued
    /\ last.err = "nil" /\ Len(last.reply) = 96 /\ last.buflen = 96

\* C11: the result of Events never contains EV_REP (0x14 = 20), whatever
\* bitmask the kernel wrote, also when bit 20 of the bitmask is set.
C11_NoRep ==
    (last.op = "Events" /\ last.err = "nil" /\ ~last.panic) =>
        /\ 20 \notin Range(last.result)
        /\ Range(last.result) = {i \in 0..31 : BitAt(last.reply, i)} \ {20}

C11_Witness ==
    /\ last.op = "Events" /\ last.err = "nil" /\ last.written = 4
    /\ BitAt(last.reply, 20) /\ BitAt(last.reply, 21)
    /\ 20 \notin Range(last.result) /\ 21 \in Range(last.result)

\* the twelve categories of the MaxCodes table, by number
TableCategories == {0, 1, 2, 3, 4, 5, 17, 18, 20, 21, 22, 23}

\* C12: Codes(c) for a category c that is not in the MaxCodes table returns
\* nil and an error wrapping ErrInvalidEventType without issuing any ioctl;
\* each of the twelve table categories, also EV_PWR whose bound is 0, is
\* found in the table and never gets that error.
C12_InvalidType ==
    last.op = "Codes" =>
        /\ last.ev \notin TableCategories =>
             /\ last.isNil /\ last.result = <<>>
             /\ last.err = "ErrInvalidEventType"
             /\ ~last.issued /\ last.ioctls = 0 /\ ~last.panic
        /\ last.ev \in TableCategories => last.err # "ErrInvalidEventType"

C12_Witness ==
    /\ last.op = "Codes" /\ last.ev = 6 /\ handles[last.h].file = "open"
    /\ last.err = "ErrInvalidEventType" /\ last.isNil /\ ~last.issued

\* the step is a call of Close
CloseStep == last.op = "none" /\ last'.op = "Close"

\* C13: Close moves a handle from Open to Closed for good and releases its
\* descriptor, that one only; a second Close on the handle returns a
\* non-nil error, releases nothing (not the descriptor number when another
\* handle has been given it since) and leaves the handle Closed.
C13_CloseOnce ==
    [][/\ \A h \in 1..Len(handles) :
            handles[h].file = "closed" => handles'[h].file = "closed"
       /\ CloseStep =>
            LET h == last'.h
                fd == handles[h].fd
            IN IF handles[h].file = "open"
               THEN /\ last'.err = "nil"
                    /\ handles' = [handles EXCEPT ![h].file = "closed"]
                    /\ fdtable[fd].owner = h
                    /\ fdtable' = [fdtable EXCEPT ![fd] = NoFile]
               ELSE /\ last'.err # "nil"
                    /\ fdtable' = fdtable
                    /\ handles' = handles]_vars

C13_Witness ==
    /\ last.op = "Close" /\ last.err = "ErrClosed"
    /\ handles[last.h].file = "closed"
    /\ fdtable[handles[last.h].fd] # NoFile
    /\ fdtable[handles[last.h].fd].owner # last.h

\* the last operation is a query (Name, ID, Events or Codes)
IsQuery == last.op \in {"Name", "ID", "Events", "Codes"}

\* C14 (as claimed): once Close has succeeded on a handle, every later
\* Name, ID, Events or Codes on that handle that returns, returns an error,
\* also when other devices have been opened since the Close.
C14_ClosedFails ==
    (IsQuery /\ handles[last.h].file = "closed" /\ ~last.panic) => last.err # "nil"

\* C15: NewDevice on a path that does not exist returns a nil handle and a
\* non-nil error that wraps the operating system's not-found error, acquires
\* no descriptor and does not panic.
C15_MissingPath ==
    [][(last.op = "none" /\ last'.op = "NewDevice" /\ last'.path = "/dev/input/event9") =>
          /\ last'.isNil /\ last'.h = 0
          /\ last'.err = "ENOENT" /\ last'.prefix = "input.NewDevice"
          /\ ~last'.panic
          /\ fdtable' = fdtable
          /\ handles' = handles]_vars

C15_Witness ==
    /\ last.op = "NewDevice" /\ last.path = MissingPath
    /\ last.isNil /\ last.err = "ENOENT"
    /\ \E fd \in Fds : fdtable[fd] = NoFile
    /\ \E fd \in Fds : fdtable[fd] # NoFile

\* the descriptors with an open file behind them
OpenFds(tab) == {fd \in Fds : tab[fd] # NoFile}

\* C16: Devices is all-or-nothing: when the open of a matched node fails it
\* returns at once, a nil slice and that node's error; the caller gets no
\* handle (also not for the nodes opened before the failure), whatever the
\* other goroutines did between the opens; and the loop has stopped at the
\* first failing node: the k-th open is the last one tried, the k-1 before
\* it are the only ones that opened, and no call stays in progress.
C16_AllOrNothing ==
    [][(last.op = "none" /\ last'.op = "Devices" /\
        \E i \in 1..Len(last'.env) : last'.env[i] # "0") =>
          LET env == last'.env
              k == CHOOSE i \in 1..Len(env) :
                       env[i] # "0" /\ \A j \in 1..(i - 1) : env[j] = "0"
          IN /\ last'.isNil /\ last'.result = <<>>
             /\ last'.err = env[k] /\ last'.prefix = "input.Devices"
             /\ handles' = handles
             /\ last'.tried = k /\ Len(env) = k
             /\ Len(scan.fds) = k - 1
             /\ fdtable' = fdtable
             /\ scan' = NoScan]_vars

C16_Witness ==
    /\ last.op = "Devices" /\ last.env = <<"0", "EACCES">>
    /\ last.isNil /\ last.result = <<>> /\ last.err = "EACCES" /\ last.tried = 2
    /\ handles = <<>> /\ scan = NoScan
    /\ \E fd \in Fds : fdtable[fd] = [path |-> "/dev/input/event0", owner |-> 0]

\* the descriptors a call of Devices in progress has opened so far
ScanFds == {scan.fds[k] : k \in 1..Len(scan.fds)}

\* C17 (as claimed): no descriptor stays open without a handle the caller
\* can close, those of a Devices still running aside; when Devices has
\* failed on the k-th node, the descriptors it opened for the earlier k-1
\* nodes have been released by the time it returns.
C17_NoLeak ==
    \A fd \in Fds :
        (fdtable[fd] # NoFile /\ fd \notin ScanFds) =>
            \E h \in 1..Len(handles) :
                handles[h].file = "open" /\ handles[h].fd = fd /\ fdtable[fd].owner = h

\* any two handles that are Open hold distinct descriptors, each the
\* descriptor of the file the handle itself opened
OpenDistinct ==
    \A h \in 1..Len(handles) :
        handles[h].file = "open" =>
            /\ fdtable[handles[h].fd] # NoFile
            /\ fdtable[handles[h].fd].owner = h
            /\ \A g \in 1..Len(handles) :
                 (g # h /\ handles[g].file = "open") => handles[g].fd # handles[h].fd

\* the step is a call of Name, ID, Events or Codes
QueryStep == last.op = "none" /\ last'.op \in {"Name", "ID", "Events", "Codes"}

\* C18: distinct Open handles are independent.  Any two Open handles hold
\* distinct descriptors; a query on an Open handle is answered from that
\* handle's own open file and changes no handle and no descriptor; Close on
\* a handle changes that handle and its descriptor only.  Each operation thus
\* reads and writes only what belongs to its own handle, so operations on
\* different Open handles give the same results in every order.
C18_Independent ==
    [][/\ OpenDistinct'
       /\ QueryStep =>
            /\ fdtable' = fdtable /\ handles' = handles
            /\ (handles[last'.h].file = "open" /\ last'.issued) =>
                 /\ last'.fd = handles[last'.h].fd
                 /\ last'.served = fdtable[handles[last'.h].fd]
                 /\ last'.served.owner = last'.h
                 /\ last'.err # "EBADF"
       /\ CloseStep =>
            \A g \in 1..Len(handles) :
                g # last'.h =>
                    /\ handles'[g] = handles[g]
                    /\ handles[g].file = "open" =>
                         fdtable'[handles[g].fd] = fdtable[handles[g].fd]]_vars

C18_Witness ==
    /\ last.op = "Name" /\ last.h = 2 /\ last.err = "nil"
    /\ Len(handles) = 2 /\ handles[1].file = "closed" /\ handles[2].file = "open"
    /\ handles[2].fd # handles[1].fd
    /\ last.served.owner = 2

\* C19: Name returns the bytes of the 256-byte reply buffer up to but
\* excluding the first NUL byte and discards what follows it; a buffer
\* without NUL is returned whole, all 256 bytes.
C19_NameCut ==
    (last.op = "Name" /\ last.err = "nil") =>
        LET b == last.reply
            r == last.result
        IN /\ Len(b) = 256 /\ last.buflen = 256
           /\ Len(r) <= 256
           /\ \A i \in 1..Len(r) : r[i] = b[i] /\ r[i] # 0
           /\ Len(r) < 256 => b[Len(r) + 1] = 0
           /\ (\A i \in 1..256 : b[i] # 0) => r = b

C19_Witness ==
    /\ last.op = "Name" /\ last.err = "nil" /\ last.written = 256
    /\ last.reply[1] = 65 /\ last.reply[2] = 0 /\ last.reply[3] = 65
    /\ last.result = <<65>>

\* C20 (as claimed): when the kernel has written fewer bytes than the size
\* declared in the request code, Name, ID, Events and Codes return an error
\* instead of decoding the bytes that were not written as zeros.
C20_ShortWriteDetected ==
    (IsQuery /\ last.issued /\ handles[last.h].file = "open" /\
     last.written < Bits(last.req, 16, 30)) =>
        last.err # "nil"

\* C21: when the ioctl fails with errno e, ioctl.Any returns e as it is, and
\* Name, ID, Events and Codes, having made exactly one ioctl call, return
\* their zero result with an error that wraps e under the name of the
\* operation only; the error of Any is nil exactly when errno is 0.
C21_ErrnoPropagated ==
    (IsQuery /\ last.issued) =>
        /\ last.ioctls = 1
        /\ (last.errno = "0") <=> (last.err = "nil")
        /\ last.errno # "0" =>
             /\ last.err = last.errno
             /\ last.prefix = "Device." \o last.op
             /\ last.isNil /\ last.result = <<>>
             /\ ~last.panic

C21_Witness ==
    /\ last.op = "Events" /\ last.issued /\ handles[last.h].file = "open"
    /\ last.errno = "ENODEV" /\ last.err = "ENODEV" /\ last.ioctls = 1
    /\ last.prefix = "Device.Events" /\ last.isNil

\* the step is the return from a call of Name, ID, Events or Codes
QueryReturnStep == last.op \in {"Name", "ID", "Events", "Codes"} /\ last'.op = "none"

\* C22: Name, ID, Events and Codes leave the handle as it was: from the call
\* to the return, ending in success or in an error, the handle is Open or
\* Closed as before and holds the same descriptor, whose open file is the same.
C22_QueriesReadOnly ==
    [][(QueryStep \/ QueryReturnStep) =>
          LET h == IF QueryStep THEN last'.h ELSE last.h
          IN /\ Len(handles') = Len(handles)
             /\ handles'[h].file = handles[h].file
             /\ handles'[h].fd = handles[h].fd
             /\ fdtable'[handles[h].fd] = fdtable[handles[h].fd]]_vars

C22_Witness ==
    /\ last.op = "Codes" /\ last.issued /\ last.err = "ENODEV"
    /\ handles[last.h].file = "open"
    /\ fdtable[handles[last.h].fd].owner = last.h

\* C24: Events requests a 4-byte bitmask (request number 0x20, category 0),
\* enough for the categories 0..EV_MAX = 0x1f, and on success returns exactly
\* the categories i in 0..31 whose bit is set in the reply, EV_REP left out,
\* in ascending order and without duplicates.
C24_EventsDecode ==
    last.op = "Events" =>
        /\ last.issued /\ last.buflen = 4
        /\ Bits(last.req, 0, 8) = 32 /\ Bits(last.req, 16, 30) = 4
        /\ 8 * last.buflen > 31
        /\ ~last.panic
        /\ last.err = "nil" =>
             /\ Len(last.reply) = 4
             /\ Ascending(last.result)
             /\ \A i \in 0..31 :
                  (i \in Range(last.result)) <=> (BitAt(last.reply, i) /\ i # 20)
             /\ Range(last.result) \subseteq 0..31

C24_Witness ==
    /\ last.op = "Events" /\ last.err = "nil" /\ last.reply = <<255, 255, 255, 255>>
    /\ Len(last.result) = 31 /\ last.result[1] = 0 /\ last.result[31] = 31

\* C25: when every matched node opens, Devices returns one Open handle per
\* path matched by /dev/input/event*, in the order the glob lists the
\* paths, each handle holding a descriptor of its own that was opened on
\* its path by this call: every open of the loop takes a free descriptor
\* for the next path, and at the return the i-th handle holds the
\* descriptor of the i-th open, which no other Open handle holds, whatever
\* the other goroutines closed between the opens.
C25_DevicesAll ==
    [][LET paths == <<"/dev/input/event0", "/dev/input/event1">>
       IN /\ (scan' # NoScan /\ scan' # scan) =>
                LET fd == scan'.fds[Len(scan'.fds)]
                IN /\ scan'.fds = Append(scan.fds, fd)
                   /\ scan'.i = Len(scan'.fds) + 1
                   /\ fdtable[fd] = NoFile
                   /\ fdtable'[fd] = [path |-> paths[Len(scan'.fds)], owner |-> 0]
          /\ \A k \in 1..Len(scan.fds) :
                fdtable[scan.fds[k]] = [path |-> paths[k], owner |-> 0]
          /\ (last.op = "none" /\ last'.op = "Devices" /\
              \A i \in 1..Len(last'.env) : last'.env[i] = "0") =>
                LET base == Len(handles)
                    devs == last'.result
                IN /\ ~last'.isNil /\ last'.err = "nil"
                   /\ Len(devs) = Len(paths)
                   /\ Len(handles') = base + Len(paths)
                   /\ \A g \in 1..base : handles'[g] = handles[g]
                   /\ \A i \in 1..Len(devs) :
                        LET d == handles'[devs[i]]
                        IN /\ devs[i] = base + i
                           /\ d.file = "open"
                           /\ IF i < Len(devs) THEN d.fd = scan.fds[i]
                              ELSE fdtable[d.fd] = NoFile
                           /\ fdtable'[d.fd] = [path |-> paths[i], owner |-> devs[i]]
                           /\ \A j \in 1..Len(handles') :
                                (j # devs[i] /\ handles'[j].file = "open") =>
                                    handles'[j].fd # d.fd]_vars

\* the devices were opened around the release of descriptor 3 by the
\* finalizer: the second node got the lower descriptor
C25_Witness ==
    /\ last.op = "Devices" /\ last.err = "nil" /\ last.result = <<1, 2>>
    /\ handles = <<[file |-> "open", fd |-> 4], [file |-> "open", fd |-> 3]>>
    /\ fdtable[4] = [path |-> "/dev/input/event0", owner |-> 1]
    /\ fdtable[3] = [path |-> "/dev/input/event1", owner |-> 2]

\* a | b on natural numbers
RECURSIVE OrNat(_, _)
OrNat(a, b) ==
    IF a = 0 THEN b
    ELSE IF b = 0 THEN a
    ELSE 2 * OrNat(a \div 2, b \div 2) + (IF a % 2 = 1 \/ b % 2 = 1 THEN 1 ELSE 0)

\* C26 (as claimed): IOC never fails, and a field value beyond its width
\* always shows in the adjacent field: for nr >= 256 the decoded IOC_TYPE
\* differs from the supplied typ, for size >= 16384 the decoded IOC_DIR
\* differs from the supplied dir.
C26_OverflowDiffers ==
    call.fn = "IOC" =>
        /\ ~ret.panic
        /\ call.nr >= 256 => ret.typ # call.typ
        /\ call.size >= 16384 => ret.dir # call.dir

\* C26 (amended): IOC checks no bounds and never fails; the bits of a field
\* value beyond its width are ORed into the fields above it, so that
\* IOC_NR is nr mod 256, IOC_TYPE is (typ | nr>>8) mod 256, IOC_SIZE is
\* (size | typ>>8 | nr>>16) mod 16384 and IOC_DIR is
\* (dir | size>>14 | typ>>22 | nr>>30) mod 4.  The decoded field differs from
\* the supplied one exactly when that OR changes it.
C26_OverflowOrs ==
    call.fn = "IOC" =>
        /\ ~ret.panic
        /\ ret.nr = call.nr % 256
        /\ ret.typ = OrNat(call.typ, call.nr \div 256) % 256
        /\ ret.size = OrNat(OrNat(call.size, call.typ \div 256), call.nr \div 65536) % 16384
        /\ ret.dir = OrNat(OrNat(call.dir, call.size \div 16384),
                           OrNat(call.typ \div 4194304, call.nr \div 1073741824)) % 4

C26_Witness ==
    /\ call.fn = "IOC" /\ call.nr = 256 /\ call.typ = 69 /\ call.size = 16384 /\ call.dir = 2
    /\ ret.typ = 69 /\ ret.nr = 0 /\ ret.dir = 3 /\ ret.size = 0

\* C28 (as claimed): for every category for which MaxCodes succeeds, EV_PWR
\* with bound 0 among them, the buffer Codes allocates has at least one
\* byte, so that &buf[0] is valid, every bit index in 0..max tested by
\* TestBit has index div 8 < len(buf), and Codes does not panic.
C28_BufferInRange ==
    (last.op = "Codes" /\ last.ev \in TableCategories) =>
        /\ last.buflen >= 1
        /\ \A i \in 0..MaxCodes(last.ev).maxCode : i \div 8 < last.buflen
        /\ ~last.panic

\* C29 (as claimed): no query issued through a handle is delivered to an
\* open file of a different handle: whenever a query uses the handle's
\* cached descriptor number and an open file answers, it is the file this
\* handle opened.
C29_NoCrossDelivery ==
    (IsQuery /\ last.issued /\ last.served # NoFile) => last.served.owner = last.h

\* C23 (as claimed): CacheFile(rel), when XDG_CACHE_HOME is unset, empty or
\* not an absolute path, creates the missing directories of and opens the
\* file <HOME>/.cache/<rel>, <HOME> being the value of $HOME.
C23_CacheDefault ==
    (call.fn = "CacheFile" /\ (call.XDG = EmptyPath \/ ~call.XDG.abs) /\
     call.HOME # EmptyPath /\ ret.err = "nil") =>
        /\ ret.opened = [abs |-> call.HOME.abs,
                         segs |-> call.HOME.segs \o <<".cache">> \o call.rel.segs]
        /\ ret.mkdir = [abs |-> call.HOME.abs,
                        segs |-> call.HOME.segs \o <<".cache">> \o
                                 SubSeq(call.rel.segs, 1, Len(call.rel.segs) - 1)]

\* position of x in the sequence s, 0 when it is not there
IndexOf(s, x) == IF \E k \in 1..Len(s) : s[k] = x THEN CHOOSE k \in 1..Len(s) : s[k] = x ELSE 0

\* the call that has to follow call k of trace t when call k has succeeded:
\* devs are the devices discovered, events what Events returned for the
\* device of call k
FollowsInOrder(t, k) ==
    LET a == t[k]
        b == t[k + 1]
        devs == t[1].list
        evk == CHOOSE n \in 1..k :
                   /\ t[n].op = "Events" /\ t[n].h = a.h
                   /\ \A n2 \in (n + 1)..k : ~(t[n2].op = "Events" /\ t[n2].h = a.h)
        events == t[evk].list
    IN /\ a.ok
       /\ a.op = "Devices" => b.op = "ID" /\ b.h = devs[1]
       /\ a.op = "ID" => b.op = "Name" /\ b.h = a.h
       /\ a.op = "Name" => b.op = "Events" /\ b.h = a.h
       /\ a.op = "Events" =>
            IF a.list = <<>> THEN b.op = "Close" /\ b.h = a.h
            ELSE b.op = "Codes" /\ b.h = a.h /\ b.ev = a.list[1]
       /\ a.op = "Codes" =>
            IF IndexOf(events, a.ev) < Len(events)
            THEN b.op = "Codes" /\ b.h = a.h /\ b.ev = events[IndexOf(events, a.ev) + 1]
            ELSE b.op = "Close" /\ b.h = a.h
       /\ a.op = "Close" =>
            /\ IndexOf(devs, a.h) < Len(devs)
            /\ b.op = "ID" /\ b.h = devs[IndexOf(devs, a.h) + 1]

\* C27: in a run of the inputdevices command each discovered device is
\* processed in discovery order as ID, Name, Events, Codes once for each
\* event returned, in their order, and then Close; no device is closed
\* twice and none is queried after its Close; when every call has succeeded
\* and main has returned, every device has been closed exactly once.
C27_CliOrder ==
    LET t == main.trace IN
    /\ Len(t) >= 1 => t[1].op = "Devices"
    /\ \A k \in 1..(Len(t) - 1) : FollowsInOrder(t, k)
    /\ \A k \in 1..Len(t) :
         t[k].op = "Close" => \A n \in (k + 1)..Len(t) : t[n].h # t[k].h
    /\ main.pc = "done" =>
         /\ \A k \in 1..Len(t) : t[k].ok
         /\ \A d \in 1..Len(main.devs) :
              /\ Cardinality({k \in 1..Len(t) : t[k].op = "Close" /\ t[k].h = main.devs[d]}) = 1
              /\ handles[main.devs[d]].file = "closed"
         /\ \A fd \in Fds : fdtable[fd] = NoFile

C27_Witness ==
    /\ main.pc = "done" /\ main.devs = <<1, 2>>
    /\ Len(main.trace) = 10
    /\ main.trace[4].op = "Events" /\ main.trace[4].list = <<4>>
    /\ main.trace[5].op = "Codes" /\ main.trace[5].h = 1 /\ main.trace[5].ev = 4
    /\ main.trace[6].op = "Close" /\ main.trace[6].h = 1
    /\ main.trace[10].op = "Close" /\ main.trace[10].h = 2

\* C30 (as claimed): every category in the result of Events is accepted by
\* Codes: called with it, as main does for each event, Codes does not fail
\* with ErrInvalidEventType and does not crash.
C30_EventsAccepted ==
    (last.op = "Codes" /\ main.pc = "Codes") =>
        /\ last.ev \in Range(main.events)
        /\ last.err # "ErrInvalidEventType"
        /\ ~last.panic

=============================================================================
